---------------------------- MODULE Spec2Model ----------------------------
(***************************************************************************)
(* A state-machine model of nebula-nursery.py: one run of the script, from *)
(* the splash screen to process exit.  The state is the disk (the working  *)
(* directory and the directory holding the script), the answers collected  *)
(* from the operator, the commands handed to the external nebula-cert      *)
(* binary, the distribution server's requests, and the position of the     *)
(* single thread of control.                                               *)
(*                                                                         *)
(* Behaviour of collaborators the script calls:                            *)
(*   - PyInquirer's prompt() catches KeyboardInterrupt and returns {}, so  *)
(*     .get(name) yields None; a prompt in the model may therefore answer  *)
(*     NONE, or let the interrupt propagate (both outcomes are explored).  *)
(*     It catches nothing else: an exception raised by a validate callback *)
(*     leaves prompt() and propagates through main().                      *)
(*   - raise SystemExit("text") ends the interpreter with status 1.        *)
(*   - glob() without a leading dot in the pattern skips dot-files.        *)
(*   - Fernet is authenticated: decrypting with another key fails.         *)
(*   - flask.send_file resolves a relative path against app.root_path,     *)
(*     the directory of the module that created the app.                   *)
(*   - werkzeug's serve_forever swallows KeyboardInterrupt and returns.    *)
(***************************************************************************)
EXTENDS Integers, Sequences, FiniteSets, TLC

\* ------------------------------------------------------------------ bounds
MaxLighthouses == 2
MaxRequests == 2
MaxProbes == 2

\* ------------------------------------------------------------- file names
\* File names are sequences of characters, so that glob patterns and the
\* f-strings building the node's file names are computed, not looked up.
NONE == "None"

\* None where the value would otherwise be a sequence of characters.
NoneSeq == <<NONE>>

DOT == <<".">>
CRT == <<"c", "r", "t">>
KEY == <<"k", "e", "y">>
ZIP == <<"z", "i", "p">>
CA == <<"c", "a">>

WithExt(stem, ext) == stem \o DOT \o ext

CaCrt == WithExt(CA, CRT)
CaKey == WithExt(CA, KEY)
CaZip == WithExt(CA, ZIP)
CaCrypt == WithExt(CA, <<"c", "r", "y", "p", "t">>)
NodeZip == WithExt(<<"n", "o", "d", "e">>, ZIP)

\* Node names the operator may enter (any non-empty string passes the prompt).
NodeNames == {<<"l", "p">>, <<"c", "a">>, <<".", "n">>}

FileNames ==
    {CaCrt, CaKey, CaZip, CaCrypt, NodeZip}
        \cup {WithExt(n, CRT) : n \in NodeNames}
        \cup {WithExt(n, KEY) : n \in NodeNames}

\* The two directories of a run: the process's working directory and one
\* other directory in which the script file may live.
Dirs == {"cwd", "elsewhere"}

\* ------------------------------------------------------------ file contents
Absent == [kind |-> "absent"]
Plain(d) == [kind |-> "plain", data |-> d]
ZipOf(entries) == [kind |-> "zip", entries |-> entries]
Corrupt == [kind |-> "garbage"]

Exists(f, dir, name) == f[dir][name].kind # "absent"

WriteFile(f, dir, name, content) ==
    [f EXCEPT ![dir] = [@ EXCEPT ![name] = content]]

EmptyDir == [n \in FileNames |-> Absent]

\* ----------------------------------------------------------------- Fernet
\* Keys are opaque tokens; a sealed blob remembers the key that sealed it, and
\* only that key opens it.
Keys == {"K1", "K2"}
KeyInputs == Keys \cup {"malformed"}

Encrypt(k, data) == [kind |-> "crypt", key |-> k, data |-> data]

DecryptOk(k, blob) == k \in Keys /\ blob.kind = "crypt" /\ blob.key = k

\* The plaintext of a blob; called only once DecryptOk has passed.
Decrypt(k, blob) == IF blob.kind = "crypt" THEN blob.data ELSE ZipOf(<<>>)

\* ---------------------------------------------------------------- cleanup
\* glob("*.<ext>"): names ending in ".<ext>" that do not start with a dot.
EndsWith(name, suffix) ==
    /\ Len(name) >= Len(suffix)
    /\ SubSeq(name, Len(name) - Len(suffix) + 1, Len(name)) = suffix

glob(f, ext) ==
    {n \in FileNames :
        /\ Exists(f, "cwd", n)
        /\ EndsWith(n, DOT \o ext)
        /\ n[1] # "."}

cleanupNoKeys(f) ==
    [f EXCEPT !["cwd"] =
        [n \in FileNames |->
            IF n \in glob(f, CRT) \cup glob(f, ZIP) THEN Absent ELSE @[n]]]

cleanupEverything(f) ==
    [f EXCEPT !["cwd"] = [n \in FileNames |-> Absent]]

cleanup(f) ==
    [f EXCEPT !["cwd"] =
        [n \in FileNames |->
            IF n \in glob(f, CRT) \cup glob(f, KEY) \cup glob(f, ZIP)
            THEN Absent
            ELSE @[n]]]


\* ------------------------------------------------------------------ state
VARIABLES
    pc,             \* position of the single thread of control
    fs,             \* fs[dir][name]: the contents of each file
    scriptDir,      \* directory of the script file (self.script_dir)
    download_uuid,  \* the session's download token
    executable,     \* self.executable
    probes,         \* rejected answers to the executable prompt so far
    mode,           \* "ca" | "sign" | NONE before main() selects it
    ca_name,
    ca_days,        \* the answer the duration prompt accepted, in days
    ca_duration,    \* the -duration value: the hours in decimal, then "h"
    key,            \* create_ca: the generated key; sign_node: the entered key
    key_validate,   \* create_ca: the key the operator pasted back
    confirm,        \* the answer to the summary prompt of create_ca / sign_node
    is_lighthouse,
    node_name,
    node_ip,
    ip_refused,     \* the answer the open overlay-IP prompt last refused
    node_groups,
    lighthouses,    \* self.lighthouses
    commands,       \* every ca/sign command handed to subprocess.run, in order
    tunnel,         \* whether ngrok.connect has returned a tunnel
    listening,      \* whether app.run has started the listener in this run
    requests,       \* number of requests handled so far
    code,           \* the x of the last request
    response,       \* the answer to the last request
    downloads,      \* number of requests answered with the archive
    exitReason,     \* how main() ended
    exitCode,       \* the process's exit status, -1 while it runs
    lastCall,       \* the last function of the script that ran
    startVault,     \* ca.crypt as it was when the run started
    vaultWrites,    \* number of times this run wrote ca.crypt
    vaultReads      \* number of times this run read and decrypted ca.crypt

vars ==
    <<pc, fs, scriptDir, download_uuid, executable, probes, mode, ca_name,
      ca_days, ca_duration, key, key_validate, confirm, is_lighthouse, node_name, node_ip,
      ip_refused, node_groups,
      lighthouses, commands, tunnel, listening, requests, code, response,
      downloads,
      exitReason, exitCode, lastCall, startVault, vaultWrites, vaultReads>>

\* The variables only the distribution server touches.
serverVars == <<tunnel, listening, requests, code, response, downloads>>

\* The answers of the sign-node wizard.
signVars ==
    <<is_lighthouse, node_name, node_ip, ip_refused, node_groups, lighthouses>>

\* The answers of the create-ca wizard.
caVars == <<ca_name, ca_days, ca_duration, key_validate>>

\* What no step but the first and the last touches.
frameVars == <<scriptDir, download_uuid, startVault, exitCode>>

\* ------------------------------------------------------------ initial disk
Tokens == {"uuid-1", "uuid-2"}

CaCertData == Plain("ca-cert")
CaKeyData == Plain("ca-key")
CaArchive == ZipOf(<<<<CaCrt, CaCertData>>, <<CaKey, CaKeyData>>>>)

\* ca.crypt before the run: none, a vault sealed with K1, or a damaged blob.
InitialVaults == {Absent, Encrypt("K1", CaArchive), Corrupt}

\* Left-overs of an earlier run in the working directory.
StaleFiles == {{}, {CaKey, NodeZip}}

InitialDir(vault, stale) ==
    [n \in FileNames |->
        IF n = CaCrypt THEN vault
        ELSE IF n \in stale THEN Plain("stale")
        ELSE Absent]

Init ==
    /\ pc = "start"
    /\ scriptDir \in Dirs
    /\ download_uuid \in Tokens
    /\ \E vault \in InitialVaults, stale \in StaleFiles :
        /\ fs = [d \in Dirs |->
                    IF d = "cwd" THEN InitialDir(vault, stale) ELSE EmptyDir]
        /\ startVault = vault
    /\ executable = NONE
    /\ probes = 0
    /\ mode = NONE
    /\ ca_name = NONE
    /\ ca_days = NoneSeq
    /\ ca_duration = NoneSeq
    /\ key = NONE
    /\ key_validate = NONE
    /\ confirm = NONE
    /\ is_lighthouse = NONE
    /\ node_name = NoneSeq
    /\ node_ip = NoneSeq
    /\ ip_refused = NoneSeq
    /\ node_groups = NONE
    /\ lighthouses = <<>>
    /\ commands = <<>>
    /\ tunnel = FALSE
    /\ listening = FALSE
    /\ requests = 0
    /\ code = NONE
    /\ response = [status |-> 0, body |-> Absent]
    /\ downloads = 0
    /\ exitReason = NONE
    /\ exitCode = -1
    /\ lastCall = NONE
    /\ vaultWrites = 0
    /\ vaultReads = 0

\* ------------------------------------------------------- leaving main()
\* Every way out of main() passes through the finally clause of __main__.
\* reason: "return" (main returned), "decline" (SystemExit with a message),
\* "interrupt" (KeyboardInterrupt reached __main__), or the exception raised.
Leave(reason) ==
    /\ pc' = "finally"
    /\ exitReason' = reason

\* The exit status the interpreter reports for each way out.
ExitStatusDeclineZero(reason) ==
    IF reason \in {"return", "interrupt", "decline"} THEN 0 ELSE 1

ExitStatus(reason) ==
    IF reason \in {"return", "interrupt"} THEN 0 ELSE 1

\* KeyboardInterrupt raised in main() outside the signer call and the server.
InterruptiblePcs ==
    {"start", "get_executable", "mode_select", "mode_confirm",
     "ca_name", "ca_duration", "ca_confirm", "ca_run", "ca_zip", "ca_keygen",
     "ca_key_validate", "ca_encrypt",
     "sign_key", "sign_open", "sign_is_lighthouse", "sign_node_name",
     "sign_node_ip", "sign_node_groups", "sign_self_lighthouse", "sign_loop",
     "sign_add_lighthouse", "sign_confirm", "sign_run", "sign_zip",
     "sign_tunnel"}

KeyboardInterrupt ==
    /\ pc \in InterruptiblePcs
    /\ Leave("interrupt")
    /\ UNCHANGED <<confirm, fs, executable, probes, mode, key, commands, lastCall,
                   vaultWrites, vaultReads>>
    /\ UNCHANGED <<caVars, signVars, serverVars, frameVars>>

\* finally: cleanup(), then the interpreter exits.
PostClean ==
    /\ pc = "finally"
    /\ fs' = cleanup(fs)
    /\ lastCall' = "cleanup"
    /\ exitCode' = ExitStatus(exitReason)
    /\ pc' = "exit"
    /\ UNCHANGED <<confirm, executable, probes, mode, key, commands, exitReason,
                   vaultWrites, vaultReads, scriptDir, download_uuid,
                   startVault>>
    /\ UNCHANGED <<caVars, signVars, serverVars>>

\* ------------------------------------------------------ Nebula.__init__
PreClean ==
    /\ pc = "start"
    /\ fs' = cleanup(fs)
    /\ lastCall' = "cleanup"
    /\ pc' = "get_executable"
    /\ UNCHANGED <<confirm, executable, probes, mode, key, commands, exitReason,
                   vaultWrites, vaultReads>>
    /\ UNCHANGED <<caVars, signVars, serverVars, frameVars>>

\* The paths the operator may type, and what running each with -h does.
Executables == {"nebula-cert", "/bin/false", "no-such-file", "/etc/hostname", ""}

\* subprocess.run([executable, "-h"], check=True): a file that exists but
\* cannot be executed, a directory and the empty string all raise
\* PermissionError.
ProbeResult(exe) ==
    CASE exe = "nebula-cert" -> "ok"
      [] exe = "/bin/false" -> "CalledProcessError"
      [] exe = "no-such-file" -> "FileNotFoundError"
      [] OTHER -> "PermissionError"

\* except (subprocess.CalledProcessError, FileNotFoundError)
ProbeCaught == {"CalledProcessError", "FileNotFoundError"}

test_executable(exe) == ProbeResult(exe) = "ok"

\* The prompt re-asks until the validator returns True; an interrupt inside
\* the prompt makes it return {} and the script carries on with None.  An
\* exception the validator does not catch leaves the prompt and main().
get_nebula_cert_executable ==
    /\ pc = "get_executable"
    /\ lastCall' = "get_nebula_cert_executable"
    /\ \/ \E exe \in Executables :
            IF test_executable(exe)
            THEN /\ executable' = exe
                 /\ pc' = "mode_select"
                 /\ UNCHANGED <<probes, exitReason>>
            ELSE IF ProbeResult(exe) \in ProbeCaught
            THEN /\ probes < MaxProbes
                 /\ probes' = probes + 1
                 /\ UNCHANGED <<executable, pc, exitReason>>
            ELSE /\ Leave(ProbeResult(exe))
                 /\ UNCHANGED <<executable, probes>>
       \/ /\ executable' = NONE
          /\ pc' = "mode_select"
          /\ UNCHANGED <<probes, exitReason>>
    /\ UNCHANGED <<confirm, fs, mode, key, commands, vaultWrites, vaultReads>>
    /\ UNCHANGED <<caVars, signVars, serverVars, frameVars>>

\* ----------------------------------------------------------------- main
\* Answers to a confirm prompt; None (an interrupted prompt) is falsy.
ConfirmAnswers == {"yes", "no", NONE}

\* if not prompt(...).get("confirm"): only a yes passes.
ConfirmedAlways(answer) == TRUE

Confirmed(answer) == answer = "yes"

ModeSelectAlwaysCa ==
    /\ pc = "mode_select"
    /\ lastCall' = "main"
    /\ mode' = "ca"
    /\ pc' = "ca_name"
    /\ UNCHANGED <<confirm, fs, executable, probes, key, commands, exitReason,
                   vaultWrites, vaultReads>>
    /\ UNCHANGED <<caVars, signVars, serverVars, frameVars>>

ModeSelect ==
    /\ pc = "mode_select"
    /\ lastCall' = "main"
    /\ IF Exists(fs, "cwd", CaCrypt)
       THEN /\ mode' = "sign"
            /\ pc' = "mode_confirm"
       ELSE /\ mode' = "ca"
            /\ pc' = "ca_name"
    /\ UNCHANGED <<confirm, fs, executable, probes, key, commands, exitReason,
                   vaultWrites, vaultReads>>
    /\ UNCHANGED <<caVars, signVars, serverVars, frameVars>>

ModeConfirm ==
    /\ pc = "mode_confirm"
    /\ lastCall' = "main"
    /\ \E answer \in ConfirmAnswers :
        IF Confirmed(answer)
        THEN pc' = "sign_key" /\ UNCHANGED exitReason
        ELSE Leave("decline")
    /\ UNCHANGED <<confirm, fs, executable, probes, mode, key, commands, vaultWrites, vaultReads>>
    /\ UNCHANGED <<caVars, signVars, serverVars, frameVars>>

\* ------------------------------------------------------- the signer
\* nebula-cert is an external program: a call may succeed and write both of
\* its output files, or fail (non-zero exit) or be interrupted after writing
\* any part of them.
SignerWrites(f, dir, crt, crtData, keyName, keyData, written) ==
    [f EXCEPT ![dir] =
        [n \in FileNames |->
            IF n = keyName /\ "key" \in written THEN keyData
            ELSE IF n = crt /\ "crt" \in written THEN crtData
            ELSE @[n]]]

PartialOutputs == SUBSET {"crt", "key"}

\* os.path.join(self.script_dir, name): a file of the script's directory.
ScriptPath(name) == <<scriptDir, name>>

\* ------------------------------------------------------ Nebula.create_ca
CaNames == {"home-ca"}

\* int(x) for a decimal string with an optional sign.
DigitValue(c) ==
    CASE c = "0" -> 0 [] c = "1" -> 1 [] c = "2" -> 2 [] c = "3" -> 3
      [] c = "4" -> 4 [] c = "5" -> 5 [] c = "6" -> 6 [] c = "7" -> 7
      [] c = "8" -> 8 [] c = "9" -> 9

RECURSIVE int(_)
int(s) ==
    IF s = <<>> THEN 0
    ELSE IF Head(s) = "-" THEN 0 - int(Tail(s))
    ELSE int(SubSeq(s, 1, Len(s) - 1)) * 10 + DigitValue(s[Len(s)])

\* str(n) for an integer: its decimal digits, most significant first.
DigitChar(d) == <<"0", "1", "2", "3", "4", "5", "6", "7", "8", "9">>[d + 1]

RECURSIVE str(_)
str(n) ==
    IF n < 0 THEN <<"-">> \o str(0 - n)
    ELSE IF n < 10 THEN <<DigitChar(n)>>
    ELSE str(n \div 10) \o <<DigitChar(n % 10)>>

\* What the operator may type as days; the validator int(x) > 0 rejects
\* the answers that are not positive.
DurationInputs ==
    {<<"0">>, <<"-", "1">>, <<"1">>, <<"3", "6", "5", "0">>}

HoursPerDay == 24

\* str(int(ca_duration) * 24) + "h"
ToHoursNoConversion(days) == days \o <<"h">>

ToHours(days) == str(int(days) * HoursPerDay) \o <<"h">>

CaNamePrompt ==
    /\ pc = "ca_name"
    /\ lastCall' = "create_ca"
    /\ \E answer \in CaNames \cup {NONE} : ca_name' = answer
    /\ pc' = "ca_duration"
    /\ UNCHANGED <<confirm, fs, executable, probes, mode, ca_days, ca_duration, key,
                   key_validate, commands,
                   exitReason, vaultWrites, vaultReads>>
    /\ UNCHANGED <<signVars, serverVars, frameVars>>

\* An accepted answer is converted to hours; int(None) raises TypeError.
CaDurationPrompt ==
    /\ pc = "ca_duration"
    /\ lastCall' = "create_ca"
    /\ \/ \E days \in DurationInputs :
            IF int(days) > 0
            THEN /\ ca_days' = days
                 /\ ca_duration' = ToHours(days)
                 /\ pc' = "ca_confirm"
                 /\ UNCHANGED exitReason
            ELSE UNCHANGED <<ca_days, ca_duration, pc, exitReason>>
       \/ /\ Leave("TypeError")
          /\ UNCHANGED <<ca_days, ca_duration>>
    /\ UNCHANGED <<confirm, fs, executable, probes, mode, ca_name, key, key_validate,
                   commands,
                   vaultWrites, vaultReads>>
    /\ UNCHANGED <<signVars, serverVars, frameVars>>

\* Building the summary concatenates ca_name: TypeError when it is None.
CaConfirm ==
    /\ pc = "ca_confirm"
    /\ lastCall' = "create_ca"
    /\ IF ca_name = NONE
       THEN Leave("TypeError") /\ UNCHANGED confirm
       ELSE \E answer \in ConfirmAnswers :
                /\ confirm' = answer
                /\ IF Confirmed(answer)
                   THEN pc' = "ca_run" /\ UNCHANGED exitReason
                   ELSE Leave("decline")
    /\ UNCHANGED <<fs, executable, probes, mode, key, commands, vaultWrites, vaultReads>>
    /\ UNCHANGED <<caVars, signVars, serverVars, frameVars>>

CaCommand ==
    [cmd |-> "ca", exe |-> executable, name |-> ca_name,
     duration |-> ca_duration, ip |-> <<>>, groups |-> NONE,
     outCrt |-> ScriptPath(CaCrt), outKey |-> ScriptPath(CaKey)]

\* subprocess.run starts the signer; a None executable raises TypeError
\* before any process exists.
CaRun ==
    /\ pc = "ca_run"
    /\ lastCall' = "create_ca"
    /\ IF executable = NONE
       THEN Leave("TypeError") /\ UNCHANGED commands
       ELSE /\ commands' = Append(commands, CaCommand)
            /\ pc' = "ca_running"
            /\ UNCHANGED exitReason
    /\ UNCHANGED <<confirm, fs, executable, probes, mode, key, vaultWrites, vaultReads>>
    /\ UNCHANGED <<caVars, signVars, serverVars, frameVars>>

CaSignerDone ==
    /\ pc = "ca_running"
    /\ lastCall' = "create_ca"
    /\ \/ /\ fs' = SignerWrites(fs, scriptDir, CaCrt, CaCertData,
                                CaKey, CaKeyData, {"crt", "key"})
          /\ pc' = "ca_zip"
          /\ UNCHANGED exitReason
       \/ \E written \in PartialOutputs, reason \in {"CalledProcessError", "interrupt"} :
          /\ fs' = SignerWrites(fs, scriptDir, CaCrt, CaCertData,
                                CaKey, CaKeyData, written)
          /\ Leave(reason)
    /\ UNCHANGED <<confirm, executable, probes, mode, key, commands, vaultWrites, vaultReads>>
    /\ UNCHANGED <<caVars, signVars, serverVars, frameVars>>

\* with ZipFile(name, "w") as zip: zip.write(m) for each member, all in the
\* working directory.  The archive file is created first; a missing member
\* raises FileNotFoundError and the archive keeps the members written so far.
RECURSIVE ZipMembers(_, _)
ZipMembers(f, members) ==
    IF members = <<>> \/ ~Exists(f, "cwd", Head(members))
    THEN <<>>
    ELSE <<<<Head(members), f["cwd"][Head(members)]>>>>
            \o ZipMembers(f, Tail(members))

ZipComplete(f, members) == \A i \in 1..Len(members) : Exists(f, "cwd", members[i])

ZipWrite(f, name, members) == WriteFile(f, "cwd", name, ZipOf(ZipMembers(f, members)))

CaZipStep ==
    /\ pc = "ca_zip"
    /\ lastCall' = "create_ca"
    /\ fs' = ZipWrite(fs, CaZip, <<CaCrt, CaKey>>)
    /\ IF ZipComplete(fs, <<CaCrt, CaKey>>)
       THEN pc' = "ca_keygen" /\ UNCHANGED exitReason
       ELSE Leave("FileNotFoundError")
    /\ UNCHANGED <<confirm, executable, probes, mode, key, commands, vaultWrites, vaultReads>>
    /\ UNCHANGED <<caVars, signVars, serverVars, frameVars>>

\* Fernet.generate_key(), printed to the operator.
CaKeygen ==
    /\ pc = "ca_keygen"
    /\ lastCall' = "create_ca"
    /\ \E k \in Keys : key' = k
    /\ pc' = "ca_key_validate"
    /\ UNCHANGED <<confirm, fs, executable, probes, mode, commands, exitReason,
                   vaultWrites, vaultReads>>
    /\ UNCHANGED <<caVars, signVars, serverVars, frameVars>>

\* The operator pastes the key back; None has no .encode (AttributeError).
KeyMatchesAlways(entered, generated) == TRUE

KeyMatches(entered, generated) == entered = generated

CaKeyValidate ==
    /\ pc = "ca_key_validate"
    /\ lastCall' = "create_ca"
    /\ \E answer \in KeyInputs \cup {NONE} :
        /\ key_validate' = answer
        /\ IF answer = NONE
           THEN Leave("AttributeError")
           ELSE IF ~KeyMatches(answer, key)
           THEN Leave("KeyMismatch")
           ELSE pc' = "ca_encrypt" /\ UNCHANGED exitReason
    /\ UNCHANGED <<confirm, fs, executable, probes, mode, key, commands, vaultWrites,
                   vaultReads, ca_name, ca_days, ca_duration>>
    /\ UNCHANGED <<signVars, serverVars, frameVars>>

\* Read ca.zip, encrypt it, write ca.crypt; create_ca then returns.
CaEncrypt ==
    /\ pc = "ca_encrypt"
    /\ lastCall' = "create_ca"
    /\ fs' = WriteFile(fs, "cwd", CaCrypt, Encrypt(key, fs["cwd"][CaZip]))
    /\ vaultWrites' = vaultWrites + 1
    /\ UNCHANGED vaultReads
    /\ Leave("return")
    /\ UNCHANGED <<confirm, executable, probes, mode, key, commands>>
    /\ UNCHANGED <<caVars, signVars, serverVars, frameVars>>

CreateCa ==
    \/ CaNamePrompt
    \/ CaDurationPrompt
    \/ CaConfirm
    \/ CaRun
    \/ CaSignerDone
    \/ CaZipStep
    \/ CaKeygen
    \/ CaKeyValidate
    \/ CaEncrypt

\* ------------------------------------------------------ the validators
Digit == {"0", "1", "2", "3", "4", "5", "6", "7", "8", "9"}

\* The number of consecutive digits of s from position i on.
RECURSIVE DigitRun(_, _)
DigitRun(s, i) ==
    IF i > Len(s) \/ s[i] \notin Digit THEN 0 ELSE 1 + DigitRun(s, i + 1)

\* \d{1,3}\. at position i: the position after the dot, or 0 for no match.
OctetThenDot(s, i) ==
    LET r == DigitRun(s, i)
    IN  IF r \in 1..3 /\ i + r <= Len(s) /\ s[i + r] = "." THEN i + r + 1 ELSE 0

\* ^\d{1,3}\.\d{1,3}\.\d{1,3}\. : the position after the third dot, or 0.
ThreeOctets(s) ==
    LET a == OctetThenDot(s, 1)
        b == IF a = 0 THEN 0 ELSE OctetThenDot(s, a)
    IN  IF b = 0 THEN 0 ELSE OctetThenDot(s, b)

\* re.match(r"^\d{1,3}\.\d{1,3}\.\d{1,3}\.\d{1,3}", ip): a prefix match.
test_ipv4(s) ==
    LET p == ThreeOctets(s)
    IN  p # 0 /\ DigitRun(s, p) >= 1

test_ipv4_subnetNoSlash(s) == test_ipv4(s)

\* re.match(r"^\d{1,3}\.\d{1,3}\.\d{1,3}\.\d{1,3}\/\d{1,2}$", ip); "$" also
\* matches just before a final newline.
test_ipv4_subnet(s) ==
    LET p == ThreeOctets(s)
        r == DigitRun(s, p)
        q == p + r
        r2 == DigitRun(s, q + 1)
        e == q + 1 + r2
    IN  /\ p # 0
        /\ r \in 1..3
        /\ q <= Len(s)
        /\ s[q] = "/"
        /\ r2 \in 1..2
        /\ \/ e = Len(s) + 1
           \/ e = Len(s) /\ s[e] = "\n"

\* ------------------------------------------------------ Nebula.sign_node
\* What the operator may type at the overlay-IP prompts.
NodeIpInputs ==
    {<<"1", "0", ".", "0", ".", "0", ".", "5", "/", "2", "4">>,
     <<"1", "0", ".", "0", ".", "0", ".", "5">>,
     <<"n", "o", "t", "-", "a", "n", "-", "i", "p", "/", "2", "4">>,
     <<"1", "0", ".", "0", ".", "0", ".", "5", "/", "2", "4", "x">>}

LighthouseIpInputs ==
    {<<"1", "0", ".", "0", ".", "0", ".", "1">>, <<"l", "h">>}

GroupInputs == {"", "admins,laptops"}
Hosts == {"vpn.example.com"}
Ports == {"4242"}

SignKeyPrompt ==
    /\ pc = "sign_key"
    /\ lastCall' = "sign_node"
    /\ \E answer \in KeyInputs \cup {NONE} :
        IF answer = NONE
        THEN Leave("AttributeError") /\ UNCHANGED key
        ELSE key' = answer /\ pc' = "sign_open" /\ UNCHANGED exitReason
    /\ UNCHANGED <<confirm, fs, executable, probes, mode, commands, vaultWrites, vaultReads>>
    /\ UNCHANGED <<caVars, signVars, serverVars, frameVars>>

\* zip.extractall(): every member of the archive lands in the working
\* directory, later members over earlier ones.
RECURSIVE ExtractAll(_, _)
ExtractAll(f, entries) ==
    IF entries = <<>> THEN f
    ELSE ExtractAll(WriteFile(f, "cwd", Head(entries)[1], Head(entries)[2]),
                    Tail(entries))

\* What decrypting raises: ValueError for a key Fernet() refuses, InvalidToken
\* for a blob the key does not open.
DecryptErrorNever(k, blob) == NONE

DecryptError(k, blob) ==
    IF k \notin Keys THEN "ValueError"
    ELSE IF ~DecryptOk(k, blob) THEN "InvalidToken"
    ELSE NONE


\* Read ca.crypt, decrypt, write ca.zip, extract it.
SignOpenVault ==
    /\ pc = "sign_open"
    /\ lastCall' = "sign_node"
    /\ LET blob == fs["cwd"][CaCrypt]
           err == DecryptError(key, blob)
       IN  IF err # NONE
           THEN Leave(err) /\ UNCHANGED fs
           ELSE LET data == Decrypt(key, blob)
                IN  /\ fs' = ExtractAll(WriteFile(fs, "cwd", CaZip, data),
                                        data.entries)
                    /\ pc' = "sign_is_lighthouse"
                    /\ UNCHANGED exitReason
    /\ vaultReads' = vaultReads + 1
    /\ UNCHANGED <<confirm, executable, probes, mode, key, commands, vaultWrites>>
    /\ UNCHANGED <<caVars, signVars, serverVars, frameVars>>

SignIsLighthouse ==
    /\ pc = "sign_is_lighthouse"
    /\ lastCall' = "sign_node"
    /\ \E answer \in ConfirmAnswers : is_lighthouse' = answer
    /\ pc' = "sign_node_name"
    /\ UNCHANGED <<confirm, fs, executable, probes, mode, key, commands, exitReason,
                   vaultWrites, vaultReads, node_name, node_ip, ip_refused,
                   node_groups, lighthouses>>
    /\ UNCHANGED <<caVars, serverVars, frameVars>>

SignNodeName ==
    /\ pc = "sign_node_name"
    /\ lastCall' = "sign_node"
    /\ \E answer \in NodeNames \cup {NoneSeq} : node_name' = answer
    /\ pc' = "sign_node_ip"
    /\ UNCHANGED <<confirm, fs, executable, probes, mode, key, commands, exitReason,
                   vaultWrites, vaultReads, is_lighthouse, node_ip, ip_refused,
                   node_groups, lighthouses>>
    /\ UNCHANGED <<caVars, serverVars, frameVars>>

\* A value the validator rejects is asked for again.
SignNodeIp ==
    /\ pc = "sign_node_ip"
    /\ lastCall' = "sign_node"
    /\ \/ \E answer \in NodeIpInputs :
            IF test_ipv4_subnet(answer)
            THEN /\ node_ip' = answer
                 /\ ip_refused' = NoneSeq
                 /\ pc' = "sign_node_groups"
            ELSE /\ ip_refused' = answer
                 /\ UNCHANGED <<node_ip, pc>>
       \/ /\ node_ip' = NoneSeq
          /\ ip_refused' = NoneSeq
          /\ pc' = "sign_node_groups"
    /\ UNCHANGED <<confirm, fs, executable, probes, mode, key, commands, exitReason,
                   vaultWrites, vaultReads, is_lighthouse, node_name, node_groups,
                   lighthouses>>
    /\ UNCHANGED <<caVars, serverVars, frameVars>>

SignNodeGroups ==
    /\ pc = "sign_node_groups"
    /\ lastCall' = "sign_node"
    /\ \E answer \in GroupInputs \cup {NONE} : node_groups' = answer
    /\ pc' = IF is_lighthouse = "yes" THEN "sign_self_lighthouse" ELSE "sign_loop"
    /\ UNCHANGED <<confirm, fs, executable, probes, mode, key, commands, exitReason,
                   vaultWrites, vaultReads, is_lighthouse, node_name, node_ip,
                   ip_refused, lighthouses>>
    /\ UNCHANGED <<caVars, serverVars, frameVars>>

Lighthouse(nebula, public, port) ==
    [nebula |-> nebula, public |-> public, port |-> port]

\* self.lighthouses.append(entry)
AddLighthouseInFront(lhs, entry) == <<entry>> \o lhs

AddLighthouse(lhs, entry) == Append(lhs, entry)

\* The node is a lighthouse: its own overlay IP with the public host and
\* public port the operator gives.
SignSelfLighthouse ==
    /\ pc = "sign_self_lighthouse"
    /\ lastCall' = "sign_node"
    /\ \E public \in Hosts \cup {NONE}, port \in Ports :
        lighthouses' = AddLighthouse(lighthouses, Lighthouse(node_ip, public, port))
    /\ pc' = "sign_loop"
    /\ UNCHANGED <<confirm, fs, executable, probes, mode, key, commands, exitReason,
                   vaultWrites, vaultReads, is_lighthouse, node_name, node_ip,
                   ip_refused, node_groups>>
    /\ UNCHANGED <<caVars, serverVars, frameVars>>

\* Whether the loop asks "add another?" (TRUE) or insists on a first one.
AsksToAddAlways(lhs) == TRUE

AsksToAdd(lhs) == Len(lhs) # 0

\* One pass over the head of the while loop.
SignLoop ==
    /\ pc = "sign_loop"
    /\ lastCall' = "sign_node"
    /\ IF ~AsksToAdd(lighthouses)
       THEN pc' = "sign_add_lighthouse"
       ELSE \E answer \in ConfirmAnswers :
                IF answer = "yes"
                THEN Len(lighthouses) < MaxLighthouses /\ pc' = "sign_add_lighthouse"
                ELSE pc' = "sign_confirm"
    /\ UNCHANGED <<confirm, fs, executable, probes, mode, key, commands, exitReason,
                   vaultWrites, vaultReads>>
    /\ UNCHANGED <<caVars, signVars, serverVars, frameVars>>

SignAddLighthouse ==
    /\ pc = "sign_add_lighthouse"
    /\ lastCall' = "sign_node"
    /\ \/ \E nebula \in LighthouseIpInputs, public \in Hosts \cup {NONE}, port \in Ports :
            IF test_ipv4(nebula)
            THEN /\ lighthouses' =
                        AddLighthouse(lighthouses, Lighthouse(nebula, public, port))
                 /\ pc' = "sign_loop"
            ELSE UNCHANGED <<lighthouses, pc>>
       \/ \E public \in Hosts, port \in Ports :
            /\ lighthouses' =
                    AddLighthouse(lighthouses, Lighthouse(NoneSeq, public, port))
            /\ pc' = "sign_loop"
    /\ UNCHANGED <<confirm, fs, executable, probes, mode, key, commands, exitReason,
                   vaultWrites, vaultReads, is_lighthouse, node_name, node_ip,
                   ip_refused, node_groups>>
    /\ UNCHANGED <<caVars, serverVars, frameVars>>

\* The summary concatenates node_name and node_ip: TypeError when one is None.
SignConfirm ==
    /\ pc = "sign_confirm"
    /\ lastCall' = "sign_node"
    /\ IF node_name = NoneSeq \/ node_ip = NoneSeq
       THEN Leave("TypeError") /\ UNCHANGED confirm
       ELSE \E answer \in ConfirmAnswers :
                /\ confirm' = answer
                /\ IF Confirmed(answer)
                   THEN pc' = "sign_run" /\ UNCHANGED exitReason
                   ELSE Leave("decline")
    /\ UNCHANGED <<fs, executable, probes, mode, key, commands, vaultWrites, vaultReads>>
    /\ UNCHANGED <<caVars, signVars, serverVars, frameVars>>

\* f"{node_name}.crt" and f"{node_name}.key", relative to the working directory.
NodeCrt(name) == WithExt(name, CRT)
NodeKey(name) == WithExt(name, KEY)

NodeCertData == Plain("node-cert")
NodeKeyData == Plain("node-key")

\* -groups is added only for a truthy node_groups ("" and None are not).
SignCommand ==
    [cmd |-> "sign", exe |-> executable, name |-> node_name,
     duration |-> NoneSeq,
     ip |-> node_ip,
     groups |-> IF node_groups \in {"", NONE} THEN NONE ELSE node_groups,
     outCrt |-> <<"cwd", NodeCrt(node_name)>>,
     outKey |-> <<"cwd", NodeKey(node_name)>>]

SignRun ==
    /\ pc = "sign_run"
    /\ lastCall' = "sign_node"
    /\ IF executable = NONE
       THEN Leave("TypeError") /\ UNCHANGED commands
       ELSE /\ commands' = Append(commands, SignCommand)
            /\ pc' = "sign_running"
            /\ UNCHANGED exitReason
    /\ UNCHANGED <<confirm, fs, executable, probes, mode, key, vaultWrites, vaultReads>>
    /\ UNCHANGED <<caVars, signVars, serverVars, frameVars>>

SignSignerDone ==
    /\ pc = "sign_running"
    /\ lastCall' = "sign_node"
    /\ \/ /\ fs' = SignerWrites(fs, "cwd", NodeCrt(node_name), NodeCertData,
                                NodeKey(node_name), NodeKeyData, {"crt", "key"})
          /\ pc' = "sign_zip"
          /\ UNCHANGED exitReason
       \/ \E written \in PartialOutputs, reason \in {"CalledProcessError", "interrupt"} :
          /\ fs' = SignerWrites(fs, "cwd", NodeCrt(node_name), NodeCertData,
                                NodeKey(node_name), NodeKeyData, written)
          /\ Leave(reason)
    /\ UNCHANGED <<confirm, executable, probes, mode, key, commands, vaultWrites, vaultReads>>
    /\ UNCHANGED <<caVars, signVars, serverVars, frameVars>>

NodeZipMembers == <<NodeCrt(node_name), NodeKey(node_name), CaCrt>>

SignZipStep ==
    /\ pc = "sign_zip"
    /\ lastCall' = "sign_node"
    /\ fs' = ZipWrite(fs, NodeZip, NodeZipMembers)
    /\ IF ZipComplete(fs, NodeZipMembers)
       THEN pc' = "sign_tunnel" /\ UNCHANGED exitReason
       ELSE Leave("FileNotFoundError")
    /\ UNCHANGED <<confirm, executable, probes, mode, key, commands, vaultWrites, vaultReads>>
    /\ UNCHANGED <<caVars, signVars, serverVars, frameVars>>

\* ngrok.connect("8080"): a tunnel, or PyngrokError.
SignTunnelLocalFallback ==
    /\ pc = "sign_tunnel"
    /\ lastCall' = "sign_node"
    /\ \E opened \in BOOLEAN : tunnel' = opened
    /\ pc' = "sign_serve"
    /\ UNCHANGED <<confirm, fs, executable, probes, mode, key, commands,
                   vaultWrites, vaultReads, exitReason,
                   listening, requests, code, response, downloads>>
    /\ UNCHANGED <<caVars, signVars, frameVars>>

SignTunnel ==
    /\ pc = "sign_tunnel"
    /\ lastCall' = "sign_node"
    /\ \/ /\ tunnel' = TRUE
          /\ pc' = "sign_serve"
          /\ UNCHANGED exitReason
       \/ /\ Leave("PyngrokError")
          /\ UNCHANGED tunnel
    /\ UNCHANGED <<confirm, fs, executable, probes, mode, key, commands, vaultWrites, vaultReads,
                   listening, requests, code, response, downloads>>
    /\ UNCHANGED <<caVars, signVars, frameVars>>

\* app.run(port=8080): the listener starts, or the port cannot be bound.
AppRun ==
    /\ pc = "sign_serve"
    /\ lastCall' = "sign_node"
    /\ \/ /\ listening' = TRUE
          /\ pc' = "serving"
          /\ UNCHANGED exitReason
       \/ /\ Leave("OSError")
          /\ UNCHANGED listening
    /\ UNCHANGED <<confirm, fs, executable, probes, mode, key, commands, vaultWrites,
                   vaultReads, tunnel, requests, code, response, downloads>>
    /\ UNCHANGED <<caVars, signVars, frameVars>>

\* ------------------------------------------------------- download_file
\* What a client may send as x; NONE is a request without the parameter.
QueryValues == Tokens \cup {"", NONE}

Unauthorized == [status |-> 401, body |-> Absent]
ServerError == [status |-> 500, body |-> Absent]
Attachment(content) == [status |-> 200, body |-> content]

\* app.root_path: the directory of the script, against which send_file
\* resolves "node.zip".
RootPath == scriptDir

send_file(name) ==
    IF Exists(fs, RootPath, name)
    THEN Attachment(fs[RootPath][name])
    ELSE ServerError

Authorized(x) == x = download_uuid

download_fileOnce(x) ==
    IF Authorized(x) /\ downloads = 0 THEN send_file(NodeZip) ELSE Unauthorized

download_file(x) ==
    IF Authorized(x) THEN send_file(NodeZip) ELSE Unauthorized

Request ==
    /\ pc = "serving"
    /\ requests < MaxRequests
    /\ \E x \in QueryValues :
        /\ code' = x
        /\ response' = download_file(x)
        /\ downloads' = downloads + (IF download_file(x).status = 200 THEN 1 ELSE 0)
    /\ requests' = requests + 1
    /\ lastCall' = "download_file"
    /\ UNCHANGED <<confirm, pc, fs, executable, probes, mode, key, commands,
                   exitReason, vaultWrites, vaultReads, tunnel, listening>>
    /\ UNCHANGED <<caVars, signVars, frameVars>>

\* Ctrl-C while serving: serve_forever returns, app.run returns, sign_node
\* returns, main returns.
ServerStop ==
    /\ pc = "serving"
    /\ lastCall' = "sign_node"
    /\ Leave("return")
    /\ UNCHANGED <<confirm, fs, executable, probes, mode, key, commands, vaultWrites, vaultReads>>
    /\ UNCHANGED <<caVars, signVars, serverVars, frameVars>>

SignNode ==
    \/ SignKeyPrompt
    \/ SignOpenVault
    \/ SignIsLighthouse
    \/ SignNodeName
    \/ SignNodeIp
    \/ SignNodeGroups
    \/ SignSelfLighthouse
    \/ SignLoop
    \/ SignAddLighthouse
    \/ SignConfirm
    \/ SignRun
    \/ SignSignerDone
    \/ SignZipStep
    \/ SignTunnel
    \/ AppRun
    \/ ServerStop

\* ------------------------------------------------------------ the run
Next ==
    \/ PreClean
    \/ get_nebula_cert_executable
    \/ ModeSelect
    \/ ModeConfirm
    \/ CreateCa
    \/ SignNode
    \/ Request
    \/ KeyboardInterrupt
    \/ PostClean

Spec == Init /\ [][Next]_vars

\* ===================================================================
\* Properties
\* ===================================================================

\* Positions inside create_ca.
CaPcs ==
    {"ca_name", "ca_duration", "ca_confirm", "ca_run", "ca_running", "ca_zip",
     "ca_keygen", "ca_key_validate", "ca_encrypt"}

\* Positions from the summary prompt of sign_node to the end of serving.
FromSignConfirm ==
    {"sign_confirm", "sign_run", "sign_running", "sign_zip", "sign_tunnel",
     "sign_serve", "serving"}

\* Positions after pre-clean at which the run has neither called the
\* signer's ca command nor extracted the vault.
BeforeKeyMaterial ==
    {"get_executable", "mode_select", "mode_confirm", "ca_name",
     "ca_duration", "ca_confirm", "ca_run", "sign_key", "sign_open"}

\* Positions at which the run waits for the operator or serves requests.
PromptAndServingPcs ==
    {"get_executable", "mode_confirm", "ca_name", "ca_duration", "ca_confirm",
     "ca_key_validate", "sign_key", "sign_is_lighthouse", "sign_node_name",
     "sign_node_ip", "sign_node_groups", "sign_self_lighthouse", "sign_loop",
     "sign_add_lighthouse", "sign_confirm", "serving"}

\* C1: however the run ends, cleanup() was the last thing the script ran, and
\* nothing but ca.crypt is left in the working directory.
C1_PostCleanLeavesOnlyVault ==
    pc = "exit" =>
        /\ lastCall = "cleanup"
        /\ \A n \in FileNames : Exists(fs, "cwd", n) => n = CaCrypt

\* C2: once the operator has pasted back a key that differs from the generated
\* one, ca.crypt is not written: not then, not later, not at exit.
C2_KeyConfirmationGate ==
    (key_validate # NONE /\ key_validate # key) =>
        /\ vaultWrites = 0
        /\ ~Exists(fs, "cwd", CaCrypt)

C2_Witness ==
    /\ pc = "exit"
    /\ key_validate \in KeyInputs
    /\ key_validate # key
    /\ exitReason = "KeyMismatch"

\* C3 as stated: while the operator is being prompted, while the key is being
\* confirmed and while the server is serving, no plaintext ca.key is on disk.
C3_KeyOnlyDuringSigner ==
    pc \in PromptAndServingPcs => \A d \in Dirs : ~Exists(fs, d, CaKey)

\* C3 amended: in the working directory a plaintext ca.key exists only from
\* the signer's ca call (create_ca) or the extraction of the vault (sign_node)
\* until post-clean: not between pre-clean and that point, and not at exit.
C3_KeyOnlyUntilPostClean ==
    pc \in BeforeKeyMaterial \cup {"exit"} => ~Exists(fs, "cwd", CaKey)

C3_Witness ==
    /\ pc = "serving"
    /\ requests > 0
    /\ Exists(fs, "cwd", CaKey)

\* C4: a run that starts with a ca.crypt selects sign mode, never enters
\* create_ca, never issues a ca command, and leaves ca.crypt as it found it.
C4_ExistingCaKept ==
    startVault # Absent =>
        /\ mode \in {NONE, "sign"}
        /\ mode = NONE =>
                pc \in {"start", "get_executable", "mode_select", "finally", "exit"}
        /\ pc \notin CaPcs
        /\ \A i \in 1..Len(commands) : commands[i].cmd # "ca"
        /\ vaultWrites = 0
        /\ fs["cwd"][CaCrypt] = startVault

C4_Witness ==
    /\ startVault # Absent
    /\ pc = "exit"
    /\ mode = "sign"
    /\ exitReason = "return"
    /\ Len(commands) = 1

\* C5: while the server runs, the last request was answered with node.zip and
\* status 200 if its x is the session token, and with 401 and no archive
\* otherwise.
C5_ArchiveIffToken ==
    (pc = "serving" /\ requests > 0) =>
        IF code = download_uuid
        THEN response = Attachment(fs["cwd"][NodeZip])
        ELSE response = Unauthorized

\* C6: handling a request changes neither the token nor the disk nor the
\* listener; a request with the token is served again after an earlier
\* download, and a request without it is rejected.
C6_TokenNotConsumed ==
    [][(pc = "serving" /\ requests' = requests + 1) =>
        /\ pc' = "serving"
        /\ download_uuid' = download_uuid
        /\ fs' = fs
        /\ tunnel' = tunnel
        /\ listening' = listening
        /\ (code' = download_uuid /\ downloads > 0) =>
                response' = Attachment(fs["cwd"][NodeZip])
        /\ code' # download_uuid => response' = Unauthorized]_vars

C6_Witness ==
    /\ downloads >= 2
    /\ code = download_uuid
    /\ response.status = 200

\* The reasons C7 counts as a failure of the signer or of decryption.
SignerOrDecryptFailures == {"CalledProcessError", "InvalidToken", "ValueError"}

C8_CaRunLeavesOnlyVault ==
    /\ [](mode = "ca" /\ pc = "exit" /\ exitReason = "return" =>
            /\ fs["cwd"][CaCrypt] = Encrypt(key, CaArchive)
            /\ \A d \in Dirs : \A n \in {CaKey, CaCrt, CaZip} : ~Exists(fs, d, n))
    /\ [][(pc = "start" /\ pc' = "get_executable") \/ (pc = "finally" /\ pc' = "exit")
            => fs'["cwd"][CaCrypt] = fs["cwd"][CaCrypt]]_vars

C8_Witness ==
    /\ mode = "ca"
    /\ pc = "exit"
    /\ exitReason = "return"
    /\ key_validate = key
    /\ Exists(fs, "cwd", CaCrypt)

\* C9: from the summary prompt of sign_node on, the lighthouse list has at
\* least one entry.
C9_LighthousesAtConfirmation ==
    pc \in FromSignConfirm => Len(lighthouses) >= 1

C9_Witness ==
    /\ pc = "sign_confirm"
    /\ is_lighthouse = "no"
    /\ Len(lighthouses) = 1

\* C10: once ca.crypt was read with a key that does not open it, the run is
\* over with a decryption error, nothing was extracted, the signer was not
\* called, no tunnel or listener exists, and the exit is non-zero after
\* cleanup().
C10_DecryptFailureLeavesNothing ==
    (vaultReads > 0 /\ ~DecryptOk(key, startVault)) =>
        /\ \A n \in {CaZip, CaCrt, CaKey} : ~Exists(fs, "cwd", n)
        /\ commands = <<>>
        /\ ~tunnel
        /\ ~listening
        /\ exitReason \in {"InvalidToken", "ValueError"}
        /\ pc \in {"finally", "exit"}
        /\ pc = "exit" => (exitCode # 0 /\ lastCall = "cleanup")

C10_Witness ==
    /\ vaultReads > 0
    /\ exitReason = "InvalidToken"
    /\ startVault.kind = "crypt"
    /\ pc = "exit"
    /\ exitCode = 1

\* C11: every ca command carries as -duration the decimal string of 24 times
\* the days the operator entered, followed by "h" (3650 days give 87600h, one
\* day gives 24h), and never a duration of zero hours or less.
C11_DurationInHours ==
    \A i \in 1..Len(commands) :
        commands[i].cmd = "ca" =>
            LET d == commands[i].duration
                digits == SubSeq(d, 1, Len(d) - 1)
            IN  /\ Len(d) >= 2
                /\ d[Len(d)] = "h"
                /\ \A j \in 1..Len(digits) : digits[j] \in Digit
                /\ digits[1] # "0"
                /\ int(digits) = int(ca_days) * 24
                /\ int(digits) > 0
                /\ ca_days = <<"3", "6", "5", "0">> =>
                        d = <<"8", "7", "6", "0", "0", "h">>
                /\ ca_days = <<"1">> => d = <<"2", "4", "h">>

C11_Witness ==
    /\ Len(commands) = 1
    /\ commands[1].cmd = "ca"
    /\ ca_days = <<"3", "6", "5", "0">>
    /\ commands[1].duration = <<"8", "7", "6", "0", "0", "h">>

\* C12: once opening the tunnel has failed, the listener is never started, the
\* run is over with that error, and at exit cleanup() has run, node.zip and
\* every plaintext key file are gone from the working directory, and the exit
\* code is non-zero.
C12_TunnelFailureFatal ==
    exitReason = "PyngrokError" =>
        /\ ~tunnel
        /\ ~listening
        /\ requests = 0
        /\ pc \in {"finally", "exit"}
        /\ pc = "exit" =>
            /\ lastCall = "cleanup"
            /\ exitCode # 0
            /\ ~Exists(fs, "cwd", NodeZip)
            /\ \A n \in FileNames :
                    EndsWith(n, DOT \o KEY) => ~Exists(fs, "cwd", n)

\* The shape a.b.c.d/n: four groups of one to three digits separated by dots,
\* a slash, one or two digits, and nothing else.
SubnetShape(s) ==
    \E a \in 1..3, b \in 1..3, c \in 1..3, d \in 1..3, n \in 1..2 :
        LET dots == {a + 1, a + b + 2, a + b + c + 3}
            slash == a + b + c + d + 4
        IN  /\ Len(s) = slash + n
            /\ \A i \in 1..Len(s) :
                    IF i \in dots THEN s[i] = "."
                    ELSE IF i = slash THEN s[i] = "/"
                    ELSE s[i] \in Digit

C14_ConfirmBeforeSigner ==
    /\ commands # <<>> =>
            /\ confirm = "yes"
            /\ Len(commands) = 1
            /\ commands[1].cmd = mode
    /\ pc \in {"ca_run", "ca_running", "sign_run", "sign_running"} => confirm = "yes"
    /\ exitReason = "decline" =>
            /\ confirm # "yes"
            /\ commands = <<>>
            /\ vaultWrites = 0
            /\ fs["cwd"][CaCrypt] = startVault
            /\ \A d \in Dirs : ~Exists(fs, d, NodeZip)
            /\ ~tunnel
            /\ ~listening
            /\ pc \in {"finally", "exit"}

C14_Witness ==
    /\ pc = "exit"
    /\ mode = "sign"
    /\ vaultReads = 1
    /\ confirm = "no"
    /\ exitReason = "decline"
    /\ commands = <<>>

\* Positions of sign_node after the block that registers the node itself.
AfterSelfLighthouse ==
    {"sign_loop", "sign_add_lighthouse", "sign_confirm", "sign_run",
     "sign_running", "sign_zip", "sign_tunnel", "sign_serve", "serving"}

\* C15: for a lighthouse node the list is empty when the node's own entry is
\* made, and from then on the first entry is the node's own overlay IP with a
\* public host and port from the operator; every later entry is added at the
\* end, one per pass, whether or not an equal entry is already in the list.
C15_SelfLighthouseFirst ==
    /\ [](/\ pc = "sign_self_lighthouse" => lighthouses = <<>>
          /\ (is_lighthouse = "yes" /\ pc \in AfterSelfLighthouse) =>
                /\ Len(lighthouses) >= 1
                /\ lighthouses[1].nebula = node_ip
                /\ lighthouses[1].public \in Hosts \cup {NONE}
                /\ lighthouses[1].port \in Ports)
    /\ [][lighthouses' # lighthouses \/ (pc = "sign_add_lighthouse" /\ pc' = "sign_loop")
            => /\ Len(lighthouses') = Len(lighthouses) + 1
               /\ SubSeq(lighthouses', 1, Len(lighthouses)) = lighthouses]_vars

C15_Witness ==
    /\ pc = "sign_confirm"
    /\ is_lighthouse = "yes"
    /\ Len(lighthouses) = 2
    /\ lighthouses[1].nebula = node_ip
    /\ node_ip # NoneSeq
    /\ lighthouses[2].nebula # node_ip

\* C16: every ca/sign command runs an executable whose probe succeeded; an
\* answer whose probe failed is not stored as the executable; and a run that
\* ends at the executable prompt ends only because the operator interrupted
\* it, never because of a probe.
C16_ProbeGate ==
    /\ \A i \in 1..Len(commands) : ProbeResult(commands[i].exe) = "ok"
    /\ executable # NONE => ProbeResult(executable) = "ok"
    /\ (pc \in {"finally", "exit"} /\ mode = NONE) => exitReason = "interrupt"

\* C17: no sign command writes its outputs over the CA's ca.crt or ca.key,
\* and node.zip never has an entry named ca.key.
C17_ArchiveWithoutCaKey ==
    /\ \A i \in 1..Len(commands) :
            commands[i].cmd = "sign" =>
                /\ commands[i].outCrt # <<"cwd", CaCrt>>
                /\ commands[i].outKey # <<"cwd", CaKey>>
    /\ \A d \in Dirs :
            fs[d][NodeZip].kind = "zip" =>
                \A j \in 1..Len(fs[d][NodeZip].entries) :
                    fs[d][NodeZip].entries[j][1] # CaKey

\* C18: the ca command writes ca.crt and ca.key where ca.zip and cleanup()
\* look for them, the working directory, and at exit no directory holds a
\* plaintext ca.key.
C18_CaFilesSealedAndCleaned ==
    /\ \A i \in 1..Len(commands) :
            commands[i].cmd = "ca" =>
                /\ commands[i].outCrt = <<"cwd", CaCrt>>
                /\ commands[i].outKey = <<"cwd", CaKey>>
    /\ pc = "exit" => \A d \in Dirs : ~Exists(fs, d, CaKey)

\* C19: the listener runs only in sign mode, and only once the vault was
\* opened with the right key, then the summary confirmed, then the sign
\* command run to success, then node.zip written, then the tunnel opened; it
\* never runs in CA mode; and serving ends only by the operator's interrupt,
\* upon which main() returns.
C19_ServingOrder ==
    /\ [](/\ listening =>
                /\ mode = "sign"
                /\ tunnel
                /\ pc \in {"serving", "finally", "exit"}
          /\ tunnel => pc \in {"sign_serve", "serving", "finally", "exit"}
          /\ (tunnel /\ pc # "exit") =>
                /\ fs["cwd"][NodeZip].kind = "zip"
                /\ Len(fs["cwd"][NodeZip].entries) = 3
          /\ fs["cwd"][NodeZip].kind = "zip" =>
                /\ Len(commands) = 1
                /\ commands[1].cmd = "sign"
                /\ pc \notin {"sign_run", "sign_running"}
          /\ (commands # <<>> /\ mode = "sign") =>
                /\ confirm = "yes"
                /\ vaultReads = 1
                /\ DecryptOk(key, startVault)
          /\ (confirm # NONE /\ mode = "sign") => vaultReads = 1
          /\ mode = "ca" => (~listening /\ ~tunnel /\ requests = 0))
    /\ [][pc = "serving" /\ pc' # "serving" =>
                /\ listening
                /\ pc' = "finally"
                /\ exitReason' = "return"]_vars

C19_Witness ==
    /\ pc = "serving"
    /\ listening
    /\ tunnel
    /\ mode = "sign"
    /\ confirm = "yes"
    /\ requests = 0

=============================================================================
